---- MODULE Spec2Model ----
(***************************************************************************)
(* Model of the upload handler of src/pages/api/upload.ts: one HTTP        *)
(* request is a process that walks the handler from await to await; the    *)
(* user table, the file table, the datasource and the temp directory are   *)
(* the shared state.  File names are sequences of one-character strings,   *)
(* byte buffers are sequences of numbers, an absent header is "" (or <<>>  *)
(* for a header that holds a name), a null column is <<>> and a set Date   *)
(* is <<ms>>.                                                              *)
(***************************************************************************)
EXTENDS Integers, Sequences, FiniteSets, TLC

VARIABLES users, now, files, blobs, temp, workers, reqs, nreq, history, zconfig

vars == <<users, now, files, blobs, temp, workers, reqs, nreq, history, zconfig>>

(* ------------------------------ bounds -------------------------------- *)

\* requests received in one behaviour of the rate-limit specification
MaxRateRequests == 3
\* requests received in one behaviour of the chunked-upload specification
MaxChunkRequests == 3
\* requests received in one behaviour of the single-shot specification
MaxUploads == 2
\* requests received in one behaviour of a specification of two concurrent
\* requests
MaxRaceRequests == 2
\* clock ticks in one behaviour
MaxTime == 2

(* --------------------------- plain values ----------------------------- *)

Null == <<>>

\* Date.now() and the rate-limit timestamps are milliseconds; the configured
\* cooldowns are seconds (upload.ts:55, "* 1000").
MsPerSecond == 1000

Procs == {"p1", "p2"}

\* prisma.user rows: id, token, administrator
Users == {"admin", "std"}

Administrator(u) == u = "admin"

TokenOf(u) == IF u = "admin" THEN "tokA" ELSE "tokS"

\* prisma.user.findFirst({ where: { token } }): <<>> when no row matches
FindUser(token) ==
  IF \E u \in Users : TokenOf(u) = token
  THEN <<CHOOSE u \in Users : TokenOf(u) = token>>
  ELSE Null

(* ------------------------- strings and names -------------------------- *)

HasDot(s) == \E i \in 1..Len(s) : s[i] = "."

LastDot(s) == CHOOSE i \in 1..Len(s) : s[i] = "." /\ \A j \in (i+1)..Len(s) : s[j] # "."

\* name.split('.').length === 1 ? '' : name.split('.').pop()
Ext(s) == IF ~HasDot(s) THEN <<>> ELSE SubSeq(s, LastDot(s) + 1, Len(s))

\* `${ext ? '.' : ''}${ext}`
DotExt(ext) == IF ext # <<>> THEN <<".">> \o ext ELSE <<>>

Digits == <<"1", "2", "3", "4", "5", "6", "7", "8", "9">>

\* formatFileName: the 'name' format is the original name without its
\* extension; every other format is a generated token, taken fresh per call
\* (n counts the records of the file table).
FormatFileName(format, originalName, n) ==
  IF format = "name"
  THEN IF HasDot(originalName) THEN SubSeq(originalName, 1, LastDot(originalName) - 1)
       ELSE originalName
  ELSE <<"#", Digits[n + 1]>>

NameFormats == {"random", "name", "date", "uuid", "gfycat"}

\* Number(header) for the header values the requests carry
NaN == 0 - 1000000

Number(s) ==
  CASE s = "0" -> 0
    [] s = "1" -> 1
    [] s = "2" -> 2
    [] s = "3" -> 3
    [] s = "50" -> 50
    [] s = "100" -> 100
    [] s = "101" -> 101
    [] s = "-1" -> 0 - 1
    [] OTHER -> NaN

(* ------------------------------ requests ------------------------------ *)

NoPartial == [filename |-> <<>>, mimetype |-> <<"", "">>, identifier |-> "", lastchunk |-> ""]

\* the headers and the multipart body of one request
Request(auth, contentRange, format, compression, xfilename, partial, fs) ==
  [authorization |-> auth, contentRange |-> contentRange, format |-> format,
   compression |-> compression, xfilename |-> xfilename, partial |-> partial,
   files |-> fs, expiresAt |-> ""]

NoRequest == Request("", <<>>, "", "", <<>>, NoPartial, <<>>)

\* the response: an absent expiresAt or removed_gps is <<>>
NoBody == [reason |-> "", index |-> 0, remaining |-> 0, files |-> <<>>,
           pending |-> FALSE, success |-> FALSE, expiresAt |-> Null,
           removed_gps |-> Null]

NoUser == [id |-> "", administrator |-> FALSE, ratelimit |-> Null]

\* the handler's locals for the request in a slot: `response` is the
\* response object under construction (its files list is `files`), `checked`
\* the size of the file table when the name was last looked up, `stripped`
\* the outcome of removeGPSData per file index
Idle ==
  [pc |-> "idle", serial |-> 0, req |-> NoRequest, user |-> NoUser,
   format |-> "", compression |-> 0, i |-> 0, fileName |-> <<>>, ext |-> <<>>,
   fileId |-> 0, range |-> <<0, 0, 0>>, files |-> <<>>,
   expiry |-> Null, response |-> [expiresAt |-> Null, removed_gps |-> Null],
   checked |-> 0, stripped |-> <<>>,
   status |-> 0, body |-> NoBody]

Reply(l, status, body) == [l EXCEPT !.pc = "done", !.status = status, !.body = body]

BadRequest(l, reason, index) ==
  Reply(l, 400, [NoBody EXCEPT !.reason = reason, !.index = index])

(* ------------------------------- state -------------------------------- *)

InitStores ==
  /\ users = [u \in Users |-> [ratelimit |-> Null]]
  /\ now = 0
  /\ files = <<>>
  /\ blobs = <<>>
  /\ temp = <<>>
  /\ workers = <<>>
  /\ reqs = [p \in Procs |-> Idle]
  /\ nreq = 0
  /\ history = <<>>

\* a request arrives: the handler starts on it
Receive(p, r) ==
  /\ reqs[p].pc \in {"idle", "done"}
  /\ nreq' = nreq + 1
  /\ history' = Append(history, r)
  /\ reqs' = [reqs EXCEPT ![p] = [Idle EXCEPT !.pc = "auth", !.serial = nreq + 1, !.req = r]]
  /\ UNCHANGED <<users, now, files, blobs, temp, workers, zconfig>>

\* Date.now() moves on
Tick ==
  /\ now < MaxTime * MsPerSecond
  /\ now' = now + MsPerSecond
  /\ UNCHANGED <<users, files, blobs, temp, workers, reqs, nreq, history, zconfig>>

(* --------------------- authentication, rate limit --------------------- *)

\* upload.ts:23-31
Authenticate(p) ==
  LET l == reqs[p]
      found == FindUser(l.req.authorization)
  IN /\ l.pc = "auth"
     /\ reqs' = [reqs EXCEPT ![p] =
          IF l.req.authorization = "" THEN
            Reply(l, 403, [NoBody EXCEPT !.reason = "no authorization"])
          ELSE IF found = Null THEN
            Reply(l, 403, [NoBody EXCEPT !.reason = "authorization incorrect"])
          ELSE [l EXCEPT !.pc = "ratelimit",
                         !.user = [id |-> found[1],
                                   administrator |-> Administrator(found[1]),
                                   ratelimit |-> users[found[1]].ratelimit]]]
     /\ UNCHANGED <<users, now, files, blobs, temp, workers, nreq, history, zconfig>>

\* a timestamp that is reached just now still limits
ExpiredOff(remaining) == remaining < 0

\* upload.ts:36, remaining <= 0
Expired(remaining) == remaining <= 0

\* no request counts as a continuation
ContinuationNever(r) == FALSE

\* upload.ts:33 and 48, req.headers['content-range'] is present
Continuation(r) == r.contentRange # <<>>

\* upload.ts:33-70
RateLimitCheck(p) ==
  LET l == reqs[p]
      user == l.user
      continuation == Continuation(l.req)
      remaining == user.ratelimit[1] - now
  IN /\ l.pc = "ratelimit"
     /\ IF user.ratelimit # Null /\ ~continuation THEN
          IF Expired(remaining) THEN
            /\ users' = [users EXCEPT ![user.id].ratelimit = Null]
            /\ reqs' = [reqs EXCEPT ![p].pc = "headers"]
          ELSE
            /\ reqs' = [reqs EXCEPT ![p] =
                 Reply(l, 429, [NoBody EXCEPT !.reason = "ratelimited",
                                              !.remaining = remaining])]
            /\ UNCHANGED users
        ELSE IF user.ratelimit = Null /\ ~continuation THEN
          /\ reqs' = [reqs EXCEPT ![p].pc = "headers"]
          /\ IF user.administrator /\ zconfig.ratelimit.admin > 0 THEN
               users' = [users EXCEPT ![user.id].ratelimit =
                           <<now + zconfig.ratelimit.admin * MsPerSecond>>]
             ELSE IF ~user.administrator /\ zconfig.ratelimit.user > 0 THEN
               IF user.administrator /\ zconfig.ratelimit.user > 0 THEN
                 users' = [users EXCEPT ![user.id].ratelimit =
                             <<now + zconfig.ratelimit.user * MsPerSecond>>]
               ELSE UNCHANGED users
             ELSE UNCHANGED users
        ELSE
          /\ reqs' = [reqs EXCEPT ![p].pc = "headers"]
          /\ UNCHANGED users
     /\ UNCHANGED <<now, files, blobs, temp, workers, nreq, history, zconfig>>

(* --------------------------- header parsing --------------------------- *)

\* (req.headers['format'] || zconfig.uploader.default_format), then the
\* fallback to 'random' of an unknown format (upload.ts:108-111)
NameFormatOf(header) ==
  LET rawFormat == IF header # "" THEN header ELSE zconfig.uploader.default_format
  IN IF rawFormat \in NameFormats THEN rawFormat ELSE "random"

\* only a percent above 100 is refused
InvalidPercentAbove(percent) == percent > 100

\* upload.ts:118, imageCompressionPercent < 0 || imageCompressionPercent > 100
InvalidPercent(percent) == percent < 0 \/ percent > 100

\* parseExpiry(header): a duration ('1s', '2s') counts from Date.now(), a
\* date ('date=1000') is taken as it is and must not lie in the past;
\* anything else throws, which is <<>> here
ParseExpiry(header) ==
  CASE header = "1s" -> <<now + 1 * MsPerSecond>>
    [] header = "2s" -> <<now + 2 * MsPerSecond>>
    [] header = "date=1000" -> IF 1 * MsPerSecond < now THEN Null ELSE <<1 * MsPerSecond>>
    [] OTHER -> Null

\* upload.ts:72-140 and 239-252: the multipart body is parsed, the headers
\* are read and checked, and the request is routed.  The requests carry no
\* max-views or x-zipline-folder header.  A null compression
\* percent is kept as 0: every later test of it (isNaN, < 0, > 100, && ) gives
\* null and 0 the same answer.
ParseHeaders(p) ==
  LET l == reqs[p]
      r == l.req
      expiresAt == r.expiresAt
      default_expiration == zconfig.uploader.default_expiration
      headerExpiry == IF expiresAt # "" THEN ParseExpiry(expiresAt) ELSE Null
      expiry == IF default_expiration # "" THEN ParseExpiry(default_expiration)
                ELSE headerExpiry
      imageCompressionPercent == IF r.compression # "" THEN Number(r.compression) ELSE 0
      parsed == [l EXCEPT !.format = NameFormatOf(r.format),
                          !.compression = imageCompressionPercent,
                          !.expiry = expiry,
                          !.response.expiresAt = headerExpiry]
  IN /\ l.pc = "headers"
     /\ reqs' = [reqs EXCEPT ![p] =
          IF expiresAt # "" /\ ParseExpiry(expiresAt) = Null THEN
            BadRequest(l, "invalid date", 0)
          ELSE IF default_expiration # "" /\ ParseExpiry(default_expiration) = Null THEN
            BadRequest(l, "invalid date (UPLOADER_DEFAULT_EXPIRATION)", 0)
          ELSE IF imageCompressionPercent = NaN THEN
            BadRequest(l, "invalid image compression percent (invalid number)", 0)
          ELSE IF InvalidPercent(imageCompressionPercent) THEN
            BadRequest(l, "invalid image compression percent (% < 0 || % > 100)", 0)
          ELSE IF r.contentRange # <<>> /\ zconfig.chunks.enabled THEN
            [parsed EXCEPT !.pc = "exists"]
          ELSE IF Len(r.files) = 0 THEN
            BadRequest(l, "no files", 0)
          ELSE [parsed EXCEPT !.pc = "validate", !.i = 0]]
     /\ UNCHANGED <<users, now, files, blobs, temp, workers, nreq, history, zconfig>>

(* ---------------------------- chunked path ---------------------------- *)

\* a lookup that never finds a row
ExistingNever(name) == FALSE

\* prisma.file.findFirst({ where: { name } }) finds a row
Existing(name) == \E k \in 1..Len(files) : files[k].name = name

\* String.replace(tok, '') and String.replace(a, b): the first occurrence only
RECURSIVE ReplaceFirst(_, _, _)
ReplaceFirst(s, a, b) ==
  IF s = <<>> THEN <<>>
  ELSE IF Head(s) = a THEN b \o Tail(s)
  ELSE <<Head(s)>> \o ReplaceFirst(Tail(s), a, b)

\* String.split(sep): the pieces between the separators
RECURSIVE Split(_, _)
Split(s, sep) ==
  IF \A k \in 1..Len(s) : s[k] # sep THEN <<s>>
  ELSE LET at == CHOOSE k \in 1..Len(s) : s[k] = sep /\ \A j \in 1..(k-1) : s[j] # sep
       IN <<SubSeq(s, 1, at - 1)>> \o Split(SubSeq(s, at + 1, Len(s)), sep)

\* Number(piece) of one piece of the header
NumberOf(piece) ==
  IF piece = <<>> THEN 0 ELSE IF Len(piece) = 1 THEN Number(piece[1]) ELSE NaN

\* upload.ts:152-156: 'bytes start-end/total' to [start, end, total]; the
\* header is a sequence of tokens ("bytes ", the numbers, "-", "/")
ParseContentRange(header) ==
  LET pieces == Split(ReplaceFirst(ReplaceFirst(header, "bytes ", <<>>), "-", <<"/">>), "/")
  IN [k \in 1..Len(pieces) |-> NumberOf(pieces[k])]

\* a key that forgets the range
TempFileOfIdentifier(identifier, start, end) == <<identifier, 0, 0>>

\* upload.ts:175: zipline_partial_${identifier}_${start}_${end}
TempFile(identifier, start, end) == <<identifier, start, end>>

\* the URL returned for a public name (upload.ts:195-206, 329-340): the
\* request's own host and the upload route
ResponseUrl(name) == <<"h", "/", "u", "/">> \o name

\* upload.ts:141-149
PartialExists(p) ==
  LET l == reqs[p]
  IN /\ l.pc = "exists"
     /\ reqs' = [reqs EXCEPT ![p] =
          IF l.format = "name" /\ Existing(l.req.partial.filename) THEN
            BadRequest(l, "filename already exists (conflict: NAME format)", 0)
          ELSE [l EXCEPT !.pc = "write", !.checked = Len(files)]]
     /\ UNCHANGED <<users, now, files, blobs, temp, workers, nreq, history, zconfig>>

\* upload.ts:151-177
WritePartial(p) ==
  LET l == reqs[p]
      range == ParseContentRange(l.req.contentRange)
      tempFile == TempFile(l.req.partial.identifier, range[1], range[2])
  IN /\ l.pc = "write"
     /\ temp' = (tempFile :> l.req.files[1].buffer) @@ temp
     /\ reqs' = [reqs EXCEPT ![p] = [l EXCEPT !.pc = "finish", !.range = range]]
     /\ UNCHANGED <<users, now, files, blobs, workers, nreq, history, zconfig>>

\* upload.ts:179-236
FinishPartial(p) ==
  LET l == reqs[p]
      part == l.req.partial
      fileName == FormatFileName(l.format, part.filename, Len(files))
      ext == Ext(part.filename)
      file == [id |-> Len(files) + 1,
               name |-> fileName \o DotExt(ext),
               mimetype |-> part.mimetype,
               userId |-> l.user.id,
               size |-> Null,
               expiresAt |-> Null,
               origin |-> [serial |-> l.serial, index |-> 0, checked |-> l.checked]]
  IN /\ l.pc = "finish"
     /\ IF part.lastchunk = "true" THEN
          /\ files' = Append(files, file)
          /\ workers' = Append(workers,
               [file |-> [id |-> file.id, filename |-> file.name,
                          mimetype |-> file.mimetype,
                          identifier |-> part.identifier,
                          totalBytes |-> l.range[3]],
                user |-> l.user.id, state |-> "spawned", parts |-> {}])
          /\ reqs' = [reqs EXCEPT ![p] =
               Reply([l EXCEPT !.fileId = file.id], 200,
                     [NoBody EXCEPT !.pending = TRUE,
                                    !.files = <<ResponseUrl(file.name)>>])]
        ELSE
          /\ reqs' = [reqs EXCEPT ![p] = Reply(l, 200, [NoBody EXCEPT !.success = TRUE])]
          /\ UNCHANGED <<files, workers>>
     /\ UNCHANGED <<users, now, blobs, temp, nreq, history, zconfig>>

(* ------------------------- the upload worker -------------------------- *)

\* the stored ranges of an identifier: <<start, end, bytes>>
PartsOf(identifier) ==
  {<<k[2], k[3], temp[k]>> : k \in {x \in DOMAIN temp : x[1] = identifier}}

\* every byte offset of [0, total) lies in exactly one range
ExactCover(parts, total) ==
  \A o \in 0..(total - 1) : Cardinality({q \in parts : q[1] <= o /\ o < q[2]}) = 1

\* the ranges' bytes in ascending start order
RECURSIVE Reassemble(_)
Reassemble(parts) ==
  IF parts = {} THEN <<>>
  ELSE LET first == CHOOSE q \in parts : \A o \in parts : q[1] <= o[1]
       IN first[3] \o Reassemble(parts \ {first})

\* the worker spawned for a last chunk reads the chunks of its identifier
\* and saves the reassembled bytes, or fails with a ReassemblyError
WorkerRun(w) ==
  LET job == workers[w]
      parts == PartsOf(job.file.identifier)
  IN /\ job.state = "spawned"
     /\ IF ExactCover(parts, job.file.totalBytes) THEN
          /\ blobs' = (job.file.filename :> Reassemble(parts)) @@ blobs
          /\ temp' = [k \in {x \in DOMAIN temp : x[1] # job.file.identifier} |-> temp[k]]
          /\ workers' = [workers EXCEPT ![w].state = "saved", ![w].parts = parts]
        ELSE
          /\ workers' = [workers EXCEPT ![w].state = "ReassemblyError", ![w].parts = parts]
          /\ UNCHANGED <<blobs, temp>>
     /\ UNCHANGED <<users, now, files, reqs, nreq, history, zconfig>>

(* --------------------------- single-shot path ------------------------- *)

\* decodeURI(file.originalname): %2E is the one escape the names of the
\* requests hold
RECURSIVE DecodeURI(_)
DecodeURI(name) ==
  IF name = <<>> THEN <<>>
  ELSE IF Len(name) >= 3 /\ SubSeq(name, 1, 3) = <<"%", "2", "E">>
       THEN <<".">> \o DecodeURI(SubSeq(name, 4, Len(name)))
       ELSE <<Head(name)>> \o DecodeURI(Tail(name))

\* sharp(buffer).jpeg({ quality }).toBuffer(): a JPEG stream, not the input
Jpeg(buffer) == <<255, 216>> \o buffer

\* zconfig.uploader[user.administrator ? 'admin_limit' : 'user_limit']
ClassLimit(administrator) ==
  IF administrator THEN zconfig.uploader.admin_limit ELSE zconfig.uploader.user_limit

\* no size is refused
TooBigNever(size, limit) == FALSE

\* upload.ts:257, file.size > limit
TooBig(size, limit) == size > limit

\* imageCompressionPercent && file.mimetype.startsWith('image/') (upload.ts:296)
CompressionUsed(l, file) == l.compression # 0 /\ file.mimetype[1] = "image"

\* upload.ts:254-276: the checks of file i, in the order of the code
ValidateFile(p) ==
  LET l == reqs[p]
      file == l.req.files[l.i + 1]
      decodedName == DecodeURI(file.originalname)
      ext == Ext(decodedName)
      exist == IF l.req.xfilename # <<>> THEN l.req.xfilename ELSE decodedName
  IN /\ l.pc = "validate"
     /\ reqs' = [reqs EXCEPT ![p] =
          IF TooBig(Len(file.buffer), ClassLimit(l.user.administrator)) THEN
            BadRequest(l, "size too big", l.i)
          ELSE IF file.originalname = <<>> THEN
            BadRequest(l, "no filename", l.i)
          ELSE IF ext \in zconfig.uploader.disabled_extensions THEN
            BadRequest(l, "disabled extension recieved", l.i)
          ELSE IF (l.format = "name" \/ l.req.xfilename # <<>>) /\ Existing(exist) THEN
            BadRequest(l, "filename already exists", l.i)
          ELSE [l EXCEPT !.pc = "create", !.ext = ext, !.checked = Len(files),
                         !.fileName = FormatFileName(l.format, decodedName, Len(files))]]
     /\ UNCHANGED <<users, now, files, blobs, temp, workers, nreq, history, zconfig>>

\* upload.ts:278-313 (no password header, assume_mimetypes off)
CreateFile(p) ==
  LET l == reqs[p]
      file == l.req.files[l.i + 1]
      compressionUsed == CompressionUsed(l, file)
      fileUpload ==
        [id |-> Len(files) + 1,
         name |-> l.fileName \o (IF compressionUsed THEN <<".", "j", "p", "g">>
                                 ELSE DotExt(l.ext)),
         mimetype |-> IF compressionUsed THEN <<"image", "jpeg">> ELSE file.mimetype,
         userId |-> l.user.id,
         size |-> <<Len(file.buffer)>>,
         expiresAt |-> l.expiry,
         origin |-> [serial |-> l.serial, index |-> l.i, checked |-> l.checked]]
  IN /\ l.pc = "create"
     /\ files' = Append(files, fileUpload)
     /\ reqs' = [reqs EXCEPT ![p] = [l EXCEPT !.pc = "save", !.fileId = fileUpload.id]]
     /\ UNCHANGED <<users, now, blobs, temp, workers, nreq, history, zconfig>>

\* the loop ends one file early
LoopDoneOff(i, length) == i >= length - 1

\* upload.ts:254, the loop runs while i !== req.files.length
LoopDone(i, length) == i = length

\* upload.ts:254 and 363: ++i, and the loop goes on or ends
NextFile(l) ==
  [l EXCEPT !.i = l.i + 1,
            !.pc = IF LoopDone(l.i + 1, Len(l.req.files)) THEN "respond" ELSE "validate"]

\* upload.ts:353, the file is to be stripped of its GPS data
GpsWanted(fileUpload) ==
  zconfig.exif.enabled /\ zconfig.exif.remove_gps /\ fileUpload.mimetype[1] = "image"

\* upload.ts:315-353 (no zws header, no discord hook); the iteration ends
\* here unless the file is to be stripped of its GPS data
SaveFile(p) ==
  LET l == reqs[p]
      file == l.req.files[l.i + 1]
      fileUpload == files[l.fileId]
      buffer == IF CompressionUsed(l, file) THEN Jpeg(file.buffer) ELSE file.buffer
      pushed == [l EXCEPT !.files = Append(l.files, ResponseUrl(fileUpload.name))]
  IN /\ l.pc = "save"
     /\ blobs' = (fileUpload.name :> buffer) @@ blobs
     /\ reqs' = [reqs EXCEPT ![p] =
          IF GpsWanted(fileUpload) THEN [pushed EXCEPT !.pc = "gps"]
          ELSE NextFile([pushed EXCEPT !.stripped = Append(l.stripped, "none")])]
     /\ UNCHANGED <<users, now, files, temp, workers, nreq, history, zconfig>>

\* the byte that stands for a GPS tag in the metadata of an image
IsGps(b) == b = 71

\* removeGPSData on success: the blob is saved again under its name without
\* its GPS tags
StripGPS(buffer) == SelectSeq(buffer, LAMBDA b : ~IsGps(b))

\* upload.ts:357-361, the catch: the failure is logged and reported
OnGpsError(l) ==
  NextFile([l EXCEPT !.response.removed_gps = <<FALSE>>,
                     !.stripped = Append(l.stripped, "failed")])

\* upload.ts:353-363: removeGPSData(fileUpload) returns (ok) or throws
RemoveGPS(p, ok) ==
  LET l == reqs[p]
      fileUpload == files[l.fileId]
  IN /\ l.pc = "gps"
     /\ IF ok THEN
          /\ blobs' = [blobs EXCEPT ![fileUpload.name] = StripGPS(@)]
          /\ reqs' = [reqs EXCEPT ![p] =
               NextFile([l EXCEPT !.response.removed_gps = <<TRUE>>,
                                  !.stripped = Append(l.stripped, "ok")])]
        ELSE
          /\ reqs' = [reqs EXCEPT ![p] = OnGpsError(l)]
          /\ UNCHANGED blobs
     /\ UNCHANGED <<users, now, files, temp, workers, nreq, history, zconfig>>

\* upload.ts:365-370
Respond(p) ==
  LET l == reqs[p]
  IN /\ l.pc = "respond"
     /\ reqs' = [reqs EXCEPT ![p] =
          Reply(l, 200, [NoBody EXCEPT !.files = l.files,
                                       !.expiresAt = l.response.expiresAt,
                                       !.removed_gps = l.response.removed_gps])]
     /\ UNCHANGED <<users, now, files, blobs, temp, workers, nreq, history, zconfig>>

(* --------------------- configurations and requests -------------------- *)

Config(admin, user, adminLimit, userLimit, format) ==
  [ratelimit |-> [admin |-> admin, user |-> user],
   uploader |-> [admin_limit |-> adminLimit, user_limit |-> userLimit,
                 disabled_extensions |-> {<<"x">>}, default_format |-> format,
                 default_expiration |-> ""],
   chunks |-> [enabled |-> TRUE],
   exif |-> [enabled |-> FALSE, remove_gps |-> FALSE]]

Text == <<"text", "plain">>

Png == <<"image", "png">>

Upload(name, mimetype, buffer) ==
  [originalname |-> name, mimetype |-> mimetype, buffer |-> buffer]

Small == Upload(<<"a", ".", "t">>, Text, <<1>>)

Mid == Upload(<<"b", "%", "2", "E", "t">>, Text, <<1, 2>>)

Big == Upload(<<"c", ".", "t">>, Text, <<1, 2, 3>>)

Exe == Upload(<<"d", ".", "x">>, Text, <<1>>)

Anon == Upload(<<>>, Text, <<1>>)

Img == Upload(<<"a", ".", "p">>, Png, <<1>>)

\* two images that carry a GPS tag
Geo == Upload(<<"g", ".", "p">>, Png, <<71, 1>>)

Geo2 == Upload(<<"h", ".", "p">>, Png, <<2, 71>>)

SingleShot(u, format, compression, xfilename, fs) ==
  Request(TokenOf(u), <<>>, format, compression, xfilename, NoPartial, fs)

\* the single-shot requests: a standard user's, with and without the name
\* format and image compression, an administrator's around the two limits,
\* one with a filename override and one with a wrong token
SingleMenu ==
  {SingleShot("std", f, "", <<>>, fs) :
     f \in {"", "name"},
     fs \in {<<>>, <<Small>>, <<Mid>>, <<Exe>>, <<Anon>>, <<Img>>,
             <<Small, Mid>>, <<Small, Small>>, <<Small, Img>>, <<Exe, Small>>}}
  \cup {SingleShot("std", f, "50", <<>>, fs) :
     f \in {"", "name"}, fs \in {<<Img>>, <<Small, Img>>}}
  \cup {SingleShot("admin", "", "", <<>>, fs) : fs \in {<<Mid>>, <<Big>>, <<Small, Mid>>}}
  \cup {SingleShot("std", "name", "", <<"z">>, <<Small>>)}
  \cup {Request("tokX", <<>>, "", "", <<>>, NoPartial, <<Small>>)}

\* the client's file behind an upload identifier
Original(identifier) == <<7, 8, 9>>

Numerals == <<"0", "1", "2", "3", "4", "5", "6", "7", "8", "9">>

\* the content-range header of a client: bytes <start>-<end>/<total>
ContentRange(start, end, total) ==
  <<"bytes ", Numerals[start + 1], "-", Numerals[end + 1], "/", Numerals[total + 1]>>

\* one chunk request of a client that uploads Original(identifier) as v.b
Chunk(u, identifier, start, end, buffer, lastchunk) ==
  Request(TokenOf(u), ContentRange(start, end, Len(Original(identifier))), "", "", <<>>,
          [filename |-> <<"v", ".", "b">>, mimetype |-> <<"video", "bin">>,
           identifier |-> identifier,
           lastchunk |-> IF lastchunk THEN "true" ELSE ""],
          <<Upload(<<"b", "l", "o", "b">>, <<"application", "octet-stream">>, buffer)>>)

\* the bytes [start, end) of a buffer
Slice(buffer, start, end) == SubSeq(buffer, start + 1, end)

\* the chunk requests of upload u1: every range of the file with its bytes,
\* as a last chunk or not, and one chunk that is shorter than its range
ChunkMenu ==
  {Chunk("std", "u1", x[1], x[2], Slice(Original("u1"), x[1], x[2]), last) :
     x \in {y \in (0..2) \X (1..3) : y[1] < y[2]}, last \in BOOLEAN}
  \cup {Chunk("std", "u1", 0, 2, <<7>>, FALSE)}

\* the requests of the rate-limit specification: one small file per class
\* of user, and a chunk continuation
RateMenu ==
  {SingleShot(u, "", "", <<>>, <<Small>>) : u \in Users}
  \cup {Chunk("admin", "u1", 0, 1, <<7>>, FALSE)}

\* the file a user uploads in chunks under an identifier: the two users'
\* files differ in every byte
OriginalOf(u, identifier) ==
  IF Administrator(u) THEN <<4, 5, 6>> ELSE Original(identifier)

\* the chunk requests of two users who both name their upload u1: the
\* first byte and the rest of the file of each
RaceChunkMenu ==
  {Chunk(u, "u1", x[1], x[2], Slice(OriginalOf(u, "u1"), x[1], x[2]), FALSE) :
     u \in Users, x \in {<<0, 1>>, <<1, 3>>}}

\* the values of the image-compression-percent header: absent, the ends of
\* the range, a value inside, one on either side, and no number
Percents == {"", "0", "50", "100", "101", "-1", "abc"}

\* single-shot and last-chunk requests under every value of the header
HeaderMenu ==
  {SingleShot("std", "", c, <<>>, fs) : c \in Percents, fs \in {<<Img>>, <<Small, Img>>}}
  \cup {[Chunk("std", "u1", 0, 3, Original("u1"), TRUE) EXCEPT !.compression = c] :
          c \in Percents}

\* the requests sent to a server whose chunking is disabled: one small file
\* per class of user, without a content-range header and with one
NoChunkMenu ==
  {SingleShot(u, "", "", <<>>, <<Small>>) : u \in Users}
  \cup {[SingleShot(u, "", "", <<>>, <<Small>>) EXCEPT !.contentRange = ContentRange(0, 1, 3)] :
          u \in Users}

\* the values of the expires-at header and of the configured default
\* expiration: absent, two durations, a date, and for the header a value
\* that does not parse
Expirations == {"", "1s", "2s", "date=1000"}

\* uploads of one and of two files under every value of the expires-at header
ExpiryMenu ==
  {[SingleShot("std", "", "", <<>>, fs) EXCEPT !.expiresAt = e] :
     e \in Expirations \cup {"soon"}, fs \in {<<Small>>, <<Small, Mid>>}}

\* files that fail the size check and one more check
Fat == Upload(<<"a", ".", "t">>, Text, <<1, 2>>)

AnonFat == Upload(<<>>, Text, <<1, 2>>)

ExeFat == Upload(<<"d", ".", "x">>, Text, <<1, 2>>)

\* requests of one to three files whose files fail no check, one check or
\* several checks at once, the failing file first or after a valid one; the
\* name a.t is asked for by the name format and by a filename override
OrderMenu ==
  {SingleShot("std", f, "", <<>>, fs) :
     f \in {"", "name"},
     fs \in {<<Small>>, <<Fat>>, <<AnonFat>>, <<ExeFat>>, <<Small, Small>>,
             <<Small, Fat>>, <<Small, AnonFat>>, <<Small, ExeFat>>, <<Small, Exe>>,
             <<Mid, Small>>, <<Small, Anon, Small>>}}
  \cup {SingleShot("std", "name", "", <<"a", ".", "t">>, fs) :
          fs \in {<<Exe>>, <<Fat>>, <<ExeFat>>}}

\* uploads of images and other files, alone and in pairs, one recompressed
\* and one pair with a file that fails validation
GpsMenu ==
  {SingleShot("std", "", "", <<>>, fs) :
     fs \in {<<Geo>>, <<Small>>, <<Geo, Geo2>>, <<Geo, Small>>, <<Small, Geo>>,
             <<Geo, Exe>>}}
  \cup {SingleShot("std", "", "50", <<>>, <<Geo>>)}

\* requests of both users for the same file names, with the name format
\* and without it, single-shot and as the last chunk of a chunked upload
RaceMenu ==
  {SingleShot(u, "name", "", <<>>, fs) : u \in Users, fs \in {<<Small>>, <<Small, Mid>>}}
  \cup {SingleShot("std", "", "", <<>>, <<Small>>)}
  \cup {[Chunk(u, "u1", 0, 3, Original("u1"), TRUE) EXCEPT !.format = "name"] :
          u \in Users}

(* --------------------------- specifications --------------------------- *)

\* single-shot uploads, one request at a time, no cooldown configured
Init ==
  /\ InitStores
  /\ zconfig = Config(0, 0, 2, 1, "random")

Next ==
  \/ \E r \in SingleMenu : nreq < MaxUploads /\ Receive("p1", r)
  \/ Authenticate("p1")
  \/ RateLimitCheck("p1")
  \/ ParseHeaders("p1")
  \/ ValidateFile("p1")
  \/ CreateFile("p1")
  \/ SaveFile("p1")
  \/ Respond("p1")

Spec == Init /\ [][Next]_vars

\* chunked uploads, one request at a time, the worker running on its own
ChunkInit ==
  /\ InitStores
  /\ zconfig \in {Config(0, 0, 3, 2, f) : f \in {"random", "name"}}

ChunkNext ==
  \/ \E r \in ChunkMenu : nreq < MaxChunkRequests /\ Receive("p1", r)
  \/ Authenticate("p1")
  \/ RateLimitCheck("p1")
  \/ ParseHeaders("p1")
  \/ PartialExists("p1")
  \/ WritePartial("p1")
  \/ FinishPartial("p1")
  \/ \E w \in 1..Len(workers) : WorkerRun(w)

ChunkSpec == ChunkInit /\ [][ChunkNext]_vars

\* the rate limit: each cooldown configured or not, the clock running
RateInit ==
  /\ InitStores
  /\ zconfig \in {Config(a, u, 2, 1, "random") : a \in {0, 1}, u \in {0, 1}}

RateNext ==
  \/ Tick
  \/ \E r \in RateMenu : nreq < MaxRateRequests /\ Receive("p1", r)
  \/ Authenticate("p1")
  \/ RateLimitCheck("p1")
  \/ ParseHeaders("p1")
  \/ PartialExists("p1")
  \/ WritePartial("p1")
  \/ FinishPartial("p1")
  \/ ValidateFile("p1")
  \/ CreateFile("p1")
  \/ SaveFile("p1")
  \/ Respond("p1")

RateSpec == RateInit /\ [][RateNext]_vars

\* chunk requests of two users handled concurrently, none of them a last
\* chunk
ChunkRaceInit ==
  /\ InitStores
  /\ zconfig = Config(0, 0, 3, 3, "random")

ChunkRaceNext ==
  \/ \E p \in Procs, r \in RaceChunkMenu : nreq < MaxRaceRequests /\ Receive(p, r)
  \/ \E p \in Procs : Authenticate(p)
  \/ \E p \in Procs : RateLimitCheck(p)
  \/ \E p \in Procs : ParseHeaders(p)
  \/ \E p \in Procs : PartialExists(p)
  \/ \E p \in Procs : WritePartial(p)
  \/ \E p \in Procs : FinishPartial(p)

ChunkRaceSpec == ChunkRaceInit /\ [][ChunkRaceNext]_vars

\* both paths under every value of the image-compression-percent header
HeaderInit ==
  /\ InitStores
  /\ zconfig = Config(0, 0, 3, 3, "random")

HeaderNext ==
  \/ \E r \in HeaderMenu : nreq < MaxUploads /\ Receive("p1", r)
  \/ Authenticate("p1")
  \/ RateLimitCheck("p1")
  \/ ParseHeaders("p1")
  \/ PartialExists("p1")
  \/ WritePartial("p1")
  \/ FinishPartial("p1")
  \/ \E w \in 1..Len(workers) : WorkerRun(w)
  \/ ValidateFile("p1")
  \/ CreateFile("p1")
  \/ SaveFile("p1")
  \/ Respond("p1")

HeaderSpec == HeaderInit /\ [][HeaderNext]_vars

\* single-shot uploads with GPS stripping configured; removeGPSData may fail
GpsInit ==
  /\ InitStores
  /\ zconfig = [Config(0, 0, 2, 2, "random") EXCEPT
                  !.exif = [enabled |-> TRUE, remove_gps |-> TRUE]]

GpsNext ==
  \/ \E r \in GpsMenu : nreq < MaxUploads /\ Receive("p1", r)
  \/ Authenticate("p1")
  \/ RateLimitCheck("p1")
  \/ ParseHeaders("p1")
  \/ ValidateFile("p1")
  \/ CreateFile("p1")
  \/ SaveFile("p1")
  \/ \E ok \in BOOLEAN : RemoveGPS("p1", ok)
  \/ Respond("p1")

GpsSpec == GpsInit /\ [][GpsNext]_vars

\* two requests handled concurrently, every await a point where the other
\* request may run
RaceInit ==
  /\ InitStores
  /\ zconfig = Config(0, 0, 2, 2, "random")

RaceNext ==
  \/ \E p \in Procs, r \in RaceMenu : nreq < MaxRaceRequests /\ Receive(p, r)
  \/ \E p \in Procs : Authenticate(p)
  \/ \E p \in Procs : RateLimitCheck(p)
  \/ \E p \in Procs : ParseHeaders(p)
  \/ \E p \in Procs : PartialExists(p)
  \/ \E p \in Procs : WritePartial(p)
  \/ \E p \in Procs : FinishPartial(p)
  \/ \E p \in Procs : ValidateFile(p)
  \/ \E p \in Procs : CreateFile(p)
  \/ \E p \in Procs : SaveFile(p)
  \/ \E p \in Procs : Respond(p)

RaceSpec == RaceInit /\ [][RaceNext]_vars

\* single-shot uploads whose files fail validation, one request at a time
OrderInit ==
  /\ InitStores
  /\ zconfig = Config(0, 0, 2, 1, "random")

OrderNext ==
  \/ \E r \in OrderMenu : nreq < MaxUploads /\ Receive("p1", r)
  \/ Authenticate("p1")
  \/ RateLimitCheck("p1")
  \/ ParseHeaders("p1")
  \/ ValidateFile("p1")
  \/ CreateFile("p1")
  \/ SaveFile("p1")
  \/ Respond("p1")

OrderSpec == OrderInit /\ [][OrderNext]_vars

\* the rate limit with chunking disabled: each cooldown configured or not,
\* the clock running
NoChunkInit ==
  /\ InitStores
  /\ zconfig \in {[Config(a, u, 2, 1, "random") EXCEPT !.chunks.enabled = FALSE] :
                    a \in {0, 1}, u \in {0, 1}}

NoChunkNext ==
  \/ Tick
  \/ \E r \in NoChunkMenu : nreq < MaxRateRequests /\ Receive("p1", r)
  \/ Authenticate("p1")
  \/ RateLimitCheck("p1")
  \/ ParseHeaders("p1")
  \/ ValidateFile("p1")
  \/ CreateFile("p1")
  \/ SaveFile("p1")
  \/ Respond("p1")

NoChunkSpec == NoChunkInit /\ [][NoChunkNext]_vars

\* single-shot uploads under every configured default expiration, the
\* clock running
ExpiryInit ==
  /\ InitStores
  /\ zconfig \in {[Config(0, 0, 2, 2, "random") EXCEPT !.uploader.default_expiration = d] :
                    d \in Expirations}

ExpiryNext ==
  \/ Tick
  \/ \E r \in ExpiryMenu : nreq < MaxUploads /\ Receive("p1", r)
  \/ Authenticate("p1")
  \/ RateLimitCheck("p1")
  \/ ParseHeaders("p1")
  \/ ValidateFile("p1")
  \/ CreateFile("p1")
  \/ SaveFile("p1")
  \/ Respond("p1")

ExpirySpec == ExpiryInit /\ [][ExpiryNext]_vars

(* ------------------------ what the claims speak of --------------------- *)

\* the request that created a record
RequestOf(file) == history[file.origin.serial]

\* the records a request created
RecordsBy(serial) == {k \in 1..Len(files) : files[k].origin.serial = serial}

\* the chunk requests received for an identifier, in arrival order
RECURSIVE ChunksOf(_, _)
ChunksOf(h, identifier) ==
  IF h = <<>> THEN <<>>
  ELSE IF Head(h).contentRange # <<>> /\ Head(h).partial.identifier = identifier
       THEN <<Head(h)>> \o ChunksOf(Tail(h), identifier)
       ELSE ChunksOf(Tail(h), identifier)

RangeOf(r) == ParseContentRange(r.contentRange)

\* the chunk requests carry the bytes of their range, and every byte offset
\* of the file lies in the range of exactly one of them
CoverOnce(chunks, identifier) ==
  LET total == Len(Original(identifier))
      ranges == [k \in 1..Len(chunks) |-> RangeOf(chunks[k])]
  IN /\ \A k \in 1..Len(chunks) :
          /\ ranges[k][1] < ranges[k][2]
          /\ ranges[k][2] <= total
          /\ ranges[k][3] = total
          /\ chunks[k].files[1].buffer = Slice(Original(identifier), ranges[k][1], ranges[k][2])
     /\ \A o \in 0..(total - 1) :
          Cardinality({k \in 1..Len(chunks) : ranges[k][1] <= o /\ o < ranges[k][2]}) = 1

\* the last-chunk request is the last of them, and the only one
LastChunkLast(chunks) ==
  /\ chunks # <<>>
  /\ \A k \in 1..Len(chunks) : (chunks[k].partial.lastchunk = "true") <=> (k = Len(chunks))

\* C1: when the chunk requests of an upload cover [0,total) exactly once, in
\* any arrival order, the last of them being the last chunk, the worker of
\* the upload, once it has run, has stored exactly the original bytes.
C1_RoundTrip ==
  \A w \in 1..Len(workers) :
    LET job == workers[w]
        chunks == ChunksOf(history, job.file.identifier)
    IN (job.state # "spawned" /\ LastChunkLast(chunks)
          /\ CoverOnce(chunks, job.file.identifier))
       => /\ job.state = "saved"
          /\ job.file.filename \in DOMAIN blobs
          /\ blobs[job.file.filename] = Original(job.file.identifier)

\* three chunks that arrived in descending order were reassembled
C1_Witness ==
  \E w \in 1..Len(workers) :
    LET job == workers[w]
        chunks == ChunksOf(history, job.file.identifier)
    IN /\ job.state = "saved"
       /\ Len(chunks) = 3
       /\ LastChunkLast(chunks)
       /\ CoverOnce(chunks, job.file.identifier)
       /\ RangeOf(chunks[1])[1] > RangeOf(chunks[2])[1]
       /\ RangeOf(chunks[2])[1] > RangeOf(chunks[3])[1]
       /\ blobs[job.file.filename] = Original(job.file.identifier)

\* C2: the last-chunk request of an identifier whose stored ranges leave a
\* gap or overlap creates no FileRecord, and the finalization of such an
\* upload fails with a ReassemblyError.
C2_NoRecordOnGapOrOverlap ==
  [][/\ \A p \in Procs :
          LET l == reqs[p]
          IN (l.pc = "finish" /\ reqs'[p].pc = "done" /\ l.req.partial.lastchunk = "true"
                /\ ~ExactCover(PartsOf(l.req.partial.identifier), l.range[3]))
             => files' = files
     /\ \A w \in 1..Len(workers) :
          (workers[w].state = "spawned" /\ workers'[w].state # "spawned"
             /\ ~ExactCover(PartsOf(workers[w].file.identifier), workers[w].file.totalBytes))
          => workers'[w].state = "ReassemblyError"]_vars

\* the records created for an upload identifier
RecordsOfUpload(identifier) ==
  {k \in 1..Len(files) :
     /\ RequestOf(files[k]).contentRange # <<>>
     /\ RequestOf(files[k]).partial.identifier = identifier}

\* C3: whatever chunk requests arrive for an upload identifier, a repeated
\* last chunk included, at most one FileRecord is created for the upload,
\* and exactly one once it has completed.
C3_OneRecordPerUpload ==
  \A identifier \in {"u1"} :
    /\ Cardinality(RecordsOfUpload(identifier)) <= 1
    /\ (\E w \in 1..Len(workers) :
          workers[w].file.identifier = identifier /\ workers[w].state = "saved")
       => Cardinality(RecordsOfUpload(identifier)) = 1

\* the names in the file table when file `index` of request `serial` is checked
NamesBefore(serial, index) ==
  {files[k].name : k \in {j \in 1..Len(files) :
     \/ files[j].origin.serial < serial
     \/ files[j].origin.serial = serial /\ files[j].origin.index < index}}

\* the request is a name-format one
NameFormat(r) == NameFormatOf(r.format) = "name"

\* a single-shot request all of whose files are valid uploads of its user
ValidUpload(r, serial, u) ==
  /\ r.contentRange = <<>>
  /\ r.compression = "" \/ Number(r.compression) \in 0..100
  /\ Len(r.files) >= 1
  /\ \A i \in 1..Len(r.files) :
       /\ Len(r.files[i].buffer) <= ClassLimit(Administrator(u))
       /\ r.files[i].originalname # <<>>
       /\ Ext(DecodeURI(r.files[i].originalname)) \notin zconfig.uploader.disabled_extensions
       /\ (NameFormat(r) \/ r.xfilename # <<>>)
          => (IF r.xfilename # <<>> THEN r.xfilename
              ELSE DecodeURI(r.files[i].originalname)) \notin NamesBefore(serial, i - 1)

\* C4: a valid single-shot request with n files ends with exactly n
\* FileRecords of its own, one per input file, and n URLs in its response.
C4_RecordPerFile ==
  \A p \in Procs :
    LET l == reqs[p]
        n == Len(l.req.files)
    IN (l.pc = "done" /\ l.user.id # "" /\ ValidUpload(l.req, l.serial, l.user.id))
       => /\ l.status = 200
          /\ Cardinality(RecordsBy(l.serial)) = n
          /\ \A i \in 0..(n - 1) : \E k \in RecordsBy(l.serial) : files[k].origin.index = i
          /\ Len(l.body.files) = n

\* a request with two files has answered with two URLs
C4_Witness ==
  \E p \in Procs :
    /\ reqs[p].pc = "done" /\ reqs[p].status = 200
    /\ ValidUpload(reqs[p].req, reqs[p].serial, reqs[p].user.id)
    /\ Len(reqs[p].req.files) = 2
    /\ Cardinality(RecordsBy(reqs[p].serial)) = 2
    /\ Len(reqs[p].body.files) = 2

\* the byte size of the upload a record stands for: the size of the file, or
\* the total of the content-range of the last chunk
UploadSize(file) ==
  IF file.size # Null THEN file.size[1] ELSE RangeOf(RequestOf(file))[3]

\* the client's name of the upload a record stands for
UploadName(file) ==
  IF RequestOf(file).contentRange # <<>> THEN RequestOf(file).partial.filename
  ELSE DecodeURI(RequestOf(file).files[file.origin.index + 1].originalname)

\* C5: in every finalize, single-shot or last chunk, a FileRecord is created
\* only for a file that passed validation (size within the class limit, a
\* filename, no disabled extension, for the name format a name not in use),
\* and a blob is saved under a name only when a FileRecord has that name.
C5_ValidateCreateSave ==
  /\ \A k \in 1..Len(files) :
       /\ UploadSize(files[k]) <= ClassLimit(Administrator(files[k].userId))
       /\ UploadName(files[k]) # <<>>
       /\ Ext(UploadName(files[k])) \notin zconfig.uploader.disabled_extensions
       /\ NameFormat(RequestOf(files[k]))
          => UploadName(files[k]) \notin {files[j].name : j \in 1..(k - 1)}
  /\ \A name \in DOMAIN blobs : Existing(name)

\* C6: a file larger than the class limit of its uploader is rejected with a
\* 400 and gets no FileRecord and no blob; a file of exactly the limit is
\* not rejected for its size.
C6_SizeLimit ==
  /\ \A k \in 1..Len(files) :
       UploadSize(files[k]) <= ClassLimit(Administrator(files[k].userId))
  /\ \A w \in 1..Len(workers) :
       workers[w].state = "saved"
       => workers[w].file.totalBytes <= ClassLimit(Administrator(workers[w].user))
  /\ \A p \in Procs :
       LET l == reqs[p]
       IN /\ (l.pc = "done" /\ l.user.id # "" /\ l.status # 429
                /\ \/ /\ l.req.contentRange = <<>>
                      /\ \E i \in 1..Len(l.req.files) :
                           Len(l.req.files[i].buffer) > ClassLimit(l.user.administrator)
                   \/ /\ l.req.contentRange # <<>>
                      /\ l.req.partial.lastchunk = "true"
                      /\ RangeOf(l.req)[3] > ClassLimit(l.user.administrator))
             => l.status = 400
          /\ (l.pc = "done" /\ l.status = 400 /\ l.body.reason = "size too big")
             => Len(l.req.files[l.body.index + 1].buffer) > ClassLimit(l.user.administrator)

\* C7: no two FileRecords created by name-format requests that do not
\* overlap in time share a public name: the second request is rejected.
C7_UniqueNames ==
  \A j, k \in 1..Len(files) :
    (j < k /\ NameFormat(RequestOf(files[j])) /\ NameFormat(RequestOf(files[k])))
    => files[j].name # files[k].name

\* the cooldown configured for the class of a user, in seconds
Cooldown(administrator) ==
  IF administrator THEN zconfig.ratelimit.admin ELSE zconfig.ratelimit.user

\* C8: the rate-limit check of a request without content-range, from a user
\* whose timestamp is set: while the timestamp lies in the future the request
\* ends as RateLimited(remaining), remaining > 0, having created no record and
\* no blob and leaving the timestamp as it was; once the timestamp has passed
\* it is cleared and the request goes on.
C8_RateLimited ==
  [][\A p \in Procs :
       LET l == reqs[p]
           ratelimit == users[l.user.id].ratelimit
       IN (l.pc = "ratelimit" /\ reqs'[p].pc # "ratelimit" /\ l.req.contentRange = <<>>
             /\ ratelimit # Null)
          => IF ratelimit[1] > now
             THEN /\ reqs'[p].pc = "done"
                  /\ reqs'[p].status = 429
                  /\ reqs'[p].body.remaining = ratelimit[1] - now
                  /\ reqs'[p].body.remaining > 0
                  /\ users' = users /\ files' = files /\ blobs' = blobs /\ temp' = temp
                  /\ RecordsBy(l.serial) = {}
             ELSE /\ reqs'[p].pc = "headers"
                  /\ users'[l.user.id].ratelimit = Null]_vars

\* a request was rejected as rate limited while the timestamp of its user
\* stayed set, and it created nothing
C8_Witness ==
  \E p \in Procs :
    /\ reqs[p].pc = "done" /\ reqs[p].status = 429 /\ reqs[p].body.remaining > 0
    /\ users[reqs[p].user.id].ratelimit # Null
    /\ RecordsBy(reqs[p].serial) = {}

\* C9: an administrator whose timestamp was set and has elapsed is allowed to
\* upload, and when that request has ended the timestamp is set again, later
\* than the elapsed one, whenever the administrator cooldown is positive.
C9_FreshCooldownAfterExpiry ==
  \A p \in Procs :
    LET l == reqs[p]
    IN (l.pc = "done" /\ l.user.administrator /\ l.req.contentRange = <<>>
          /\ l.user.ratelimit # Null /\ l.status # 429 /\ zconfig.ratelimit.admin > 0)
       => /\ l.status = 200
          /\ users[l.user.id].ratelimit # Null
          /\ users[l.user.id].ratelimit[1] > l.user.ratelimit[1]

\* C10: once a request without content-range, from a user with no timestamp
\* and a positive cooldown for the class, is past the rate-limit check, the
\* timestamp of the user is set; for standard users and administrators alike.
C10_CooldownStarted ==
  \A p \in Procs :
    LET l == reqs[p]
    IN (l.pc \notin {"idle", "auth", "ratelimit"} /\ l.user.id # ""
          /\ l.req.contentRange = <<>> /\ l.user.ratelimit = Null
          /\ Cooldown(l.user.administrator) > 0)
       => users[l.user.id].ratelimit # Null

\* C11: a request that carries a content-range header leaves the rate-limit
\* timestamp of every user as it was in each of its steps, and is never
\* answered 429, whatever the timestamp of its user holds.
C11_ContinuationSkipsRateLimit ==
  [][\A p \in Procs :
       (reqs'[p] # reqs[p] /\ reqs'[p].req.contentRange # <<>>)
       => /\ users' = users
          /\ reqs'[p].status # 429
          /\ (reqs[p].pc = "ratelimit" => reqs'[p].pc = "headers")]_vars

\* a chunk continuation was answered 200 while the timestamp of its user
\* was set and still in the future
C11_Witness ==
  \E p \in Procs :
    /\ reqs[p].pc = "done" /\ reqs[p].status = 200
    /\ reqs[p].req.contentRange # <<>>
    /\ users[reqs[p].user.id].ratelimit # Null
    /\ users[reqs[p].user.id].ratelimit[1] > now
    /\ reqs[p].user.ratelimit = users[reqs[p].user.id].ratelimit

\* C12: a chunk request whose payload is not end - start bytes long is
\* answered 400, and no stored chunk holds a payload of another length than
\* its range.
C12_ChunkLengthChecked ==
  /\ \A p \in Procs :
       LET l == reqs[p]
       IN (l.pc = "done" /\ l.user.id # "" /\ l.req.contentRange # <<>>
             /\ Len(l.req.files[1].buffer) # RangeOf(l.req)[2] - RangeOf(l.req)[1])
          => l.status = 400
  /\ \A k \in DOMAIN temp : Len(temp[k]) = k[3] - k[2]

\* the user a request authenticates as
UserOf(r) == FindUser(r.authorization)[1]

\* the storage key a chunk request writes
KeyOf(r) == TempFile(r.partial.identifier, RangeOf(r)[1], RangeOf(r)[2])

\* C13: under every interleaving of chunk requests, every stored chunk holds
\* the whole payload of one received request for its (identifier, start,
\* end), and the chunk of a request that has written and not yet answered
\* holds the payload of a request of the same user: no request of another
\* user has overwritten it.
C13_ChunkIsolation ==
  /\ \A k \in DOMAIN temp :
       \E serial \in 1..Len(history) :
         /\ history[serial].contentRange # <<>>
         /\ KeyOf(history[serial]) = k
         /\ history[serial].files[1].buffer = temp[k]
  /\ \A p \in Procs :
       LET l == reqs[p]
       IN l.pc = "finish"
          => /\ KeyOf(l.req) \in DOMAIN temp
             /\ \E serial \in 1..Len(history) :
                  /\ history[serial].contentRange # <<>>
                  /\ KeyOf(history[serial]) = KeyOf(l.req)
                  /\ UserOf(history[serial]) = l.user.id
                  /\ history[serial].files[1].buffer = temp[KeyOf(l.req)]

\* the image-compression-percent header is present and is no number of
\* [0, 100]
BadPercent(r) == r.compression # "" /\ Number(r.compression) \notin 0..100

\* C14: no step of a request whose image-compression-percent header is not
\* a number of [0, 100] creates a FileRecord, writes a chunk or a blob, or
\* enters the processing of a file or chunk; header parsing ends it with a
\* 400.
C14_BadPercentRejected ==
  [][\A p \in Procs :
       (reqs'[p] # reqs[p] /\ BadPercent(reqs'[p].req))
       => /\ files' = files /\ blobs' = blobs /\ temp' = temp /\ workers' = workers
          /\ reqs'[p].pc \in {"auth", "ratelimit", "headers", "done"}
          /\ reqs'[p].files = <<>>
          /\ (reqs[p].pc = "headers")
             => (reqs'[p].pc = "done" /\ reqs'[p].status = 400)]_vars

\* a request with files and a header that is no number, and one with a
\* header out of range, were answered 400
C14_Witness ==
  \E p \in Procs :
    /\ reqs[p].pc = "done" /\ reqs[p].status = 400
    /\ BadPercent(reqs[p].req)
    /\ Number(reqs[p].req.compression) # NaN
    /\ Len(reqs[p].req.files) = 2
    /\ RecordsBy(reqs[p].serial) = {}
    /\ \E serial \in 1..Len(history) :
         Number(history[serial].compression) = NaN /\ history[serial].compression # ""

\* C15: a request all of whose files are valid and on one of whose images
\* GPS stripping failed is answered 200 with removed_gps = false; the record
\* and the blob of that image are there and its URL is in the files list.
C15_GpsFailureTolerated ==
  \A p \in Procs :
    LET l == reqs[p]
    IN (l.pc = "done" /\ l.user.id # "" /\ ValidUpload(l.req, l.serial, l.user.id))
       => \A i \in 1..Len(l.stripped) :
            l.stripped[i] = "failed"
            => /\ l.status = 200
               /\ l.body.removed_gps = <<FALSE>>
               /\ \E k \in RecordsBy(l.serial) :
                    /\ files[k].origin.index = i - 1
                    /\ files[k].name \in DOMAIN blobs
                    /\ l.body.files[i] = ResponseUrl(files[k].name)

\* the name looked up for a request is the name its record gets: no
\* x-zipline-filename header and no image compression
PlainName(r) == r.xfilename = <<>> /\ r.compression = ""

\* C16: two FileRecords of name-format requests share a public name only
\* when the later one's name was looked up before the earlier one was
\* created, that is when both requests passed the uniqueness check before
\* either created its record; the witness shows that this interleaving is
\* reachable.
C16_DuplicateOnlyByRace ==
  \A j, k \in 1..Len(files) :
    (/\ j < k
     /\ NameFormat(RequestOf(files[j])) /\ PlainName(RequestOf(files[j]))
     /\ NameFormat(RequestOf(files[k])) /\ PlainName(RequestOf(files[k]))
     /\ files[j].name = files[k].name)
    => files[k].origin.checked < j

\* two name-format requests for a.t have both been answered 200 and have
\* left two FileRecords of one name, both names looked up in the empty table
C16_Witness ==
  \E p, q \in Procs :
    /\ p # q
    /\ reqs[p].pc = "done" /\ reqs[p].status = 200
    /\ reqs[q].pc = "done" /\ reqs[q].status = 200
    /\ NameFormat(reqs[p].req) /\ NameFormat(reqs[q].req)
    /\ reqs[p].req.contentRange = <<>> /\ reqs[q].req.contentRange = <<>>
    /\ Len(files) >= 2
    /\ files[1].name = files[2].name
    /\ files[1].origin.serial = reqs[p].serial /\ files[2].origin.serial = reqs[q].serial
    /\ files[1].origin.checked = 0 /\ files[2].origin.checked = 0

\* the checks of upload.ts:257-275, in the order the specification gives
CheckOrder ==
  <<"size too big", "no filename", "disabled extension recieved", "filename already exists">>

\* the checks that file i (from 0) of the request of l fails in this state
FailedChecks(l) ==
  LET r == l.req
      file == r.files[l.i + 1]
      name == DecodeURI(file.originalname)
  IN {c \in 1..Len(CheckOrder) :
        \/ c = 1 /\ Len(file.buffer) > ClassLimit(l.user.administrator)
        \/ c = 2 /\ file.originalname = <<>>
        \/ c = 3 /\ Ext(name) \in zconfig.uploader.disabled_extensions
        \/ c = 4 /\ (NameFormat(r) \/ r.xfilename # <<>>)
                 /\ \E k \in 1..Len(files) :
                      files[k].name = (IF r.xfilename # <<>> THEN r.xfilename ELSE name)}

\* C17: the validation of file i of a single-shot request lets the file
\* through when it fails no check, and otherwise answers 400 with index i
\* and the reason of the first check, in the order size, filename,
\* extension, name in use, that the file fails.
C17_FirstFailureWins ==
  [][\A p \in Procs :
       LET l == reqs[p]
           failed == FailedChecks(l)
       IN (l.pc = "validate" /\ reqs'[p] # l)
          => IF failed = {} THEN reqs'[p].pc = "create"
             ELSE /\ reqs'[p].pc = "done"
                  /\ reqs'[p].status = 400
                  /\ reqs'[p].body.index = l.i
                  /\ \E c \in failed :
                       /\ \A d \in failed : c <= d
                       /\ reqs'[p].body.reason = CheckOrder[c]]_vars

\* the second file of a request failed the size check and the extension
\* check and was reported as too big
C17_Witness ==
  \E p \in Procs :
    LET l == reqs[p]
    IN /\ l.pc = "done" /\ l.status = 400
       /\ l.body.index = 1
       /\ l.body.reason = "size too big"
       /\ {1, 3} \subseteq FailedChecks(l)

\* file i (from 1) of request r, received as number serial from user u,
\* passes the four checks
ValidFile(r, serial, u, i) ==
  /\ Len(r.files[i].buffer) <= ClassLimit(Administrator(u))
  /\ r.files[i].originalname # <<>>
  /\ Ext(DecodeURI(r.files[i].originalname)) \notin zconfig.uploader.disabled_extensions
  /\ (NameFormat(r) \/ r.xfilename # <<>>)
     => (IF r.xfilename # <<>> THEN r.xfilename
         ELSE DecodeURI(r.files[i].originalname)) \notin NamesBefore(serial, i - 1)

\* the first file (from 1) of the request that fails a check; 0 when none
FirstInvalid(r, serial, u) ==
  IF \A i \in 1..Len(r.files) : ValidFile(r, serial, u, i) THEN 0
  ELSE CHOOSE i \in 1..Len(r.files) :
         /\ ~ValidFile(r, serial, u, i)
         /\ \A j \in 1..(i - 1) : ValidFile(r, serial, u, j)

\* C18: when file k is the first file of a single-shot request to fail
\* validation, the request is answered 400 for file k without a list of
\* URLs, files 0..k-1 have their FileRecord and their blob, and file k and
\* the files after it have no FileRecord and no blob.
C18_NoRollback ==
  \A p \in Procs :
    LET l == reqs[p]
        first == FirstInvalid(l.req, l.serial, l.user.id)
    IN (l.pc = "done" /\ l.user.id # "" /\ l.status # 429 /\ l.req.contentRange = <<>>
          /\ ~BadPercent(l.req) /\ first > 0)
       => /\ l.status = 400
          /\ l.body.index = first - 1
          /\ l.body.files = <<>>
          /\ \A i \in 1..(first - 1) :
               \E k \in RecordsBy(l.serial) :
                 /\ files[k].origin.index = i - 1
                 /\ files[k].name \in DOMAIN blobs
                 /\ blobs[files[k].name] = l.req.files[i].buffer
          /\ \A k \in RecordsBy(l.serial) : files[k].origin.index < first - 1
          /\ Cardinality(RecordsBy(l.serial)) = first - 1
          /\ \A name \in DOMAIN blobs : \E k \in 1..Len(files) : files[k].name = name

\* a request of three files failed at its second file: the first file has
\* its record and its blob, the third was never looked at
C18_Witness ==
  \E p \in Procs :
    LET l == reqs[p]
    IN /\ l.pc = "done" /\ l.status = 400 /\ l.body.index = 1
       /\ Len(l.req.files) = 3
       /\ FirstInvalid(l.req, l.serial, l.user.id) = 2
       /\ Cardinality(RecordsBy(l.serial)) = 1
       /\ \E k \in RecordsBy(l.serial) : files[k].name \in DOMAIN blobs

\* C19: no request is in single-shot file processing while the rate-limit
\* timestamp its user had when the request arrived is still in the future,
\* a content-range header on the request or not.
C19_SingleShotRateLimited ==
  \A p \in Procs :
    LET l == reqs[p]
    IN l.pc \in {"validate", "create", "save", "gps", "respond"}
       => ~(l.user.ratelimit # Null /\ l.user.ratelimit[1] > now)

\* C20: when the 200 response of a single-shot request carries expiresAt,
\* every FileRecord the request created has that expiry, whatever the
\* expires-at header and the configured default expiration are.
C20_ReportedExpiryStored ==
  \A p \in Procs :
    LET l == reqs[p]
    IN (l.pc = "done" /\ l.status = 200 /\ l.req.contentRange = <<>>
          /\ l.body.expiresAt # Null)
       => \A k \in RecordsBy(l.serial) : files[k].expiresAt = l.body.expiresAt

====
